---- MODULE Spec2Model ----
(***************************************************************************)
(* Structural filter pruning of the OSVOS ResNet-18 (src/src/prune.py).    *)
(*                                                                         *)
(* A tensor axis is a sequence of entry identifiers: the value held at a   *)
(* position is the index that entry had when its tensor was created, so    *)
(* that removing, shifting, duplicating or re-initialising entries is      *)
(* visible.  A convolution weight is identified by its output axis and its *)
(* input axis; kernel positions are never touched by the pruner.           *)
(***************************************************************************)
EXTENDS Integers, Sequences, FiniteSets, TLC

VARIABLES
    net,            \* the network, mutated by the pruner
    call,           \* the last prune_resnet18_conv_layer call and its outcome
    nCalls,         \* number of calls made
    pc,             \* the controller's position
    filter_ranks,   \* FilterPruner.filter_ranks after normalize_ranks_per_layer
    skip_layer,     \* FilterPruner.skip_layer
    budget,         \* n_filters_to_prune_per_iter of the last ranking
    lowest,         \* result of lowest_ranking_filters
    prune_targets,  \* the plan returned by get_candidates_to_prune
    index_target,   \* number of plan entries already applied
    net_ranked,     \* the network as it was when the plan was computed
    shrink_to,      \* the widths the earlier iterations leave, per layer
    percentage,     \* main: the milestone of the outer loop
    index_iteration,\* main: inner iterations of this milestone already completed
    fine_tune_calls,\* main: fine_tune_calls
    n_filters_start,\* main: total_num_filters of the unpruned network
    is_offline_mode,\* main: is_offline_mode
    dataloader_train,\* main: the training data the scores are computed from
    files,          \* the checkpoint files written, by path
    tests,          \* the experiment_helper.test calls made, in order
    n_epochs_select,\* main: n_epochs_select
    n_epochs_finetune,\* main: n_epochs_finetune
    trained,        \* the last training call: its step and the epochs it ran
    noops           \* per layer, the calls that returned at the one-channel test

vars == <<net, call, nCalls, pc, filter_ranks, skip_layer, budget, lowest,
          prune_targets, index_target, net_ranked, shrink_to, percentage,
          index_iteration, fine_tune_calls, n_filters_start, is_offline_mode,
          dataloader_train, files, tests, n_epochs_select, n_epochs_finetune,
          trained, noops>>

rank_vars == <<filter_ranks, skip_layer, budget, lowest, prune_targets,
               index_target, net_ranked, shrink_to>>

main_vars == <<percentage, index_iteration, fine_tune_calls, n_filters_start,
               is_offline_mode, dataloader_train, files, tests, n_epochs_select,
               n_epochs_finetune, trained>>

---------------------------------------------------------------------------
(* Bounds of the model *)

\* width of the stem and of the first stage (64 in the source); the stages
\* keep the source's doubling 1 : 2 : 4 : 8
BaseWidth == 2

\* number of prune_resnet18_conv_layer calls in one behaviour
MaxCalls == 2

\* largest per-iteration budget (prune_per_iter) tried
MaxBudget == 6

\* largest number of filters of one ranking that have the low score
MaxLowScores == 3

\* a call's filter_index is one of the first LowFilters indices or the last
\* index of the targeted convolution
LowFilters == 2

---------------------------------------------------------------------------
(* Program constants *)

N_MIN_CHANNELS == 4

\* output channels of every side_prep convolution
SideWidth == 16

\* input channels of the stem convolution (RGB)
ImageChannels == 3

\* number of stages after the stem, blocks per stage, prunable layers
NStages == 4

LastLayer == 16

\* values a freshly constructed or freshly filled parameter holds
ZERO == -1

ONE == -2

RANDOM == -3

---------------------------------------------------------------------------
(* Helpers *)

Min(a, b) == IF a < b THEN a ELSE b

Max(a, b) == IF a > b THEN a ELSE b

RECURSIVE Pow2(_)
Pow2(n) == IF n = 0 THEN 1 ELSE 2 * Pow2(n - 1)

\* creation-time identifiers 0 .. n-1 of an axis of length n
Ids(n) == [i \in 1..n |-> i - 1]

Fill(n, v) == [i \in 1..n |-> v]

---------------------------------------------------------------------------
(* Layers *)

Conv2d(nIn, nOut, kernel, stride, bias) ==
    [in |-> Ids(nIn), out |-> Ids(nOut), kernel |-> kernel, stride |-> stride,
     bias |-> bias]

\* a trained normalization layer: every parameter holds a value of its own
BatchNorm2d(n) == [weight |-> Ids(n), bias |-> Ids(n), running |-> Ids(n)]

\* nn.BatchNorm2d(n) as constructed inside the pruner, before any copy
FreshBatchNorm2d(n) ==
    [weight |-> Fill(n, RANDOM), bias |-> Fill(n, ZERO), running |-> Fill(n, ZERO)]

in_channels(conv) == Len(conv.in)

out_channels(conv) == Len(conv.out)

num_features(bn) == Len(bn.weight)

None == <<>>

BasicBlockDummy(conv1, bn1, conv2, bn2, downsample, stride) ==
    [conv1 |-> conv1, bn1 |-> bn1, conv2 |-> conv2, bn2 |-> bn2,
     downsample |-> downsample, stride |-> stride]

BasicBlock(inplanes, planes, stride, downsample) ==
    BasicBlockDummy(Conv2d(inplanes, planes, 3, stride, FALSE), BatchNorm2d(planes),
                    Conv2d(planes, planes, 3, 1, FALSE), BatchNorm2d(planes),
                    downsample, stride)

\* _make_layer: two blocks; the first has a downsample path iff the stride or
\* the width changes
make_layer(inplanes, planes, stride) ==
    LET downsample == IF stride # 1 \/ inplanes # planes
                      THEN <<Conv2d(inplanes, planes, 1, stride, FALSE),
                             BatchNorm2d(planes)>>
                      ELSE None
    IN  <<BasicBlock(inplanes, planes, stride, downsample),
          BasicBlock(planes, planes, 1, None)>>

Planes(w, s) == w * Pow2(s - 1)

\* the network of width w (w = 64 in the source)
OSVOS_RESNET(w) ==
    [layer_base |-> [conv |-> Conv2d(ImageChannels, w, 7, 2, FALSE),
                     bn |-> BatchNorm2d(w)],
     layer_stages |-> [s \in 1..NStages |->
                         make_layer(IF s = 1 THEN w ELSE Planes(w, s - 1),
                                    Planes(w, s), IF s = 1 THEN 1 ELSE 2)],
     side_prep |-> [s \in 1..NStages |-> Conv2d(Planes(w, s), SideWidth, 3, 1, TRUE)],
     layer_fuse |-> Conv2d(NStages * SideWidth, 1, 1, 1, TRUE)]

get_net == OSVOS_RESNET(BaseWidth)

---------------------------------------------------------------------------
(* numpy slice assignment, as used by prune_convolution and prune_batchnorm *)

\* the bound a[:f] or a[f:] resolves to on an axis of length n (Python
\* slices: a negative bound counts from the end, and every bound is clamped)
SliceBound(n, f) == IF f < 0 THEN Max(f + n, 0) ELSE Min(f, n)

\* numpy accepts dst[...] = src[...] when the lengths agree or src has length 1
\* (src is then broadcast over dst, also over an empty dst)
Broadcastable(srcLen, dstLen) == srcLen = dstLen \/ srcLen = 1

\*   new[:f] = old[:f] ; new[f:] = old[f + 1:]     with len(new) = len(old) - 1
\* ok is FALSE when one of the two assignments raises ValueError
RemoveAt(old, f) ==
    LET n    == Len(old)
        m    == n - 1
        a    == SliceBound(m, f)
        sa   == SliceBound(n, f)
        b    == SliceBound(m, f)
        c    == SliceBound(n, f + 1)
        ok1  == Broadcastable(sa, a)
        ok2  == Broadcastable(n - c, m - b)
    IN  [ok  |-> ok1 /\ ok2,
         val |-> IF ok1 /\ ok2
                 THEN [p \in 1..m |->
                         IF p - 1 >= b
                         THEN (IF n - c = 1 THEN old[c + 1] ELSE old[c + (p - b)])
                         ELSE (IF sa = 1 THEN old[1] ELSE old[p])]
                 ELSE <<>>]

\* variant: every input-axis shrink raises
prune_convolution_in_fails(conv, filter_index, is_reducing_channels_out) ==
    LET r == RemoveAt(conv.out, filter_index)
    IN  [ok  |-> is_reducing_channels_out /\ r.ok,
         val |-> IF ~(is_reducing_channels_out /\ r.ok) THEN conv
                 ELSE [in |-> conv.in, out |-> r.val, kernel |-> conv.kernel,
                       stride |-> conv.stride, bias |-> FALSE]]

\* variant: the axis flag is ignored and the output axis is always the one reduced
prune_convolution_out_only(conv, filter_index, is_reducing_channels_out) ==
    LET r == RemoveAt(conv.out, filter_index)
    IN  [ok  |-> r.ok,
         val |-> IF ~r.ok THEN conv
                 ELSE [in |-> conv.in, out |-> r.val, kernel |-> conv.kernel,
                       stride |-> conv.stride, bias |-> FALSE]]

prune_convolution(conv, filter_index, is_reducing_channels_out) ==
    LET r == RemoveAt(IF is_reducing_channels_out THEN conv.out ELSE conv.in,
                      filter_index)
    IN  [ok  |-> r.ok,
         val |-> IF ~r.ok THEN conv
                 ELSE [in     |-> IF is_reducing_channels_out THEN conv.in ELSE r.val,
                       out    |-> IF is_reducing_channels_out THEN r.val ELSE conv.out,
                       kernel |-> conv.kernel,
                       stride |-> conv.stride,
                       bias   |-> FALSE]]

\* variant: the normalization layer is handed back without being resized
prune_batchnorm_unchanged(batchnorm_old, filter_index) ==
    [ok |-> TRUE, val |-> batchnorm_old]

\* only the scale vector is copied; the other parameters are those of the
\* freshly constructed layer
prune_batchnorm(batchnorm_old, filter_index) ==
    LET r     == RemoveAt(batchnorm_old.weight, filter_index)
        fresh == FreshBatchNorm2d(num_features(batchnorm_old) - 1)
    IN  [ok  |-> r.ok,
         val |-> IF ~r.ok THEN batchnorm_old
                 ELSE [weight |-> r.val, bias |-> fresh.bias, running |-> fresh.running]]

\* variant: the two channel counts are passed in the wrong order
init_downsample_swapped(nIn, nOut) ==
    <<Conv2d(nOut, nIn, 1, 1, FALSE),
      [weight |-> Fill(nIn, ONE), bias |-> Fill(nIn, ZERO),
       running |-> Fill(nIn, ZERO)]>>

\* nn.Sequential(nn.Conv2d(nIn, nOut, kernel_size=1, stride=1, bias=False),
\*               nn.BatchNorm2d(nOut)) followed by init_downsample
init_downsample(nIn, nOut) ==
    <<Conv2d(nIn, nOut, 1, 1, FALSE),
      [weight |-> Fill(nOut, ONE), bias |-> Fill(nOut, ZERO),
       running |-> FreshBatchNorm2d(nOut).running]>>

---------------------------------------------------------------------------
(* prune_resnet18_conv_layer *)

\* variant: the floor is tested against 0 instead of 1
is_floor_zero(conv) == out_channels(conv) = 0

\* "if conv_old.out_channels == 1: return net"
is_floor(conv) == out_channels(conv) = 1

Return(n) == [net |-> n, raised |-> FALSE]

Raise(n) == [net |-> n, raised |-> TRUE]

Block(n, index_stage, kt) == n.layer_stages[index_stage + 1][kt + 1]

SetStage(n, index_stage, bb0, bb1) ==
    [n EXCEPT !.layer_stages[index_stage + 1] = <<bb0, bb1>>]

\* layer_index == 0: the stem convolution
prune_stem(n, filter_index) ==
    LET conv_old         == n.layer_base.conv
        batchnorm_old    == n.layer_base.bn
        bb_old           == Block(n, 0, 0)
        conv_next_old    == bb_old.conv1
        downsample_1_old == bb_old.downsample
        conv_new         == prune_convolution(conv_old, filter_index, TRUE)
        batchnorm_new    == prune_batchnorm(batchnorm_old, filter_index)
        conv_next_new    == prune_convolution(conv_next_old, filter_index, FALSE)
        conv_downsample  == prune_convolution(downsample_1_old[1], filter_index, FALSE)
        downsample_1_new ==
            IF downsample_1_old = None
            THEN init_downsample(in_channels(conv_next_new.val), num_features(bb_old.bn2))
            ELSE <<conv_downsample.val, downsample_1_old[2]>>
        bb_new == BasicBlockDummy(conv_next_new.val, bb_old.bn1, bb_old.conv2,
                                  bb_old.bn2, downsample_1_new, bb_old.stride)
    IN  IF is_floor(conv_old) THEN Return(n)
        ELSE IF ~conv_new.ok \/ ~batchnorm_new.ok \/ ~conv_next_new.ok THEN Raise(n)
        ELSE IF downsample_1_old # None /\ ~conv_downsample.ok THEN Raise(n)
        ELSE Return(SetStage([n EXCEPT !.layer_base =
                                  [conv |-> conv_new.val, bn |-> batchnorm_new.val]],
                             0, bb_new, Block(n, 0, 1)))

\* index_block == 0 (kt = 0) and index_block == 2 (kt = 1): a block's conv1
prune_conv1(n, index_stage, kt, filter_index) ==
    LET bb_old        == Block(n, index_stage, kt)
        conv_old      == bb_old.conv1
        batchnorm_old == bb_old.bn1
        conv_next_old == bb_old.conv2
        conv_new      == prune_convolution(conv_old, filter_index, TRUE)
        batchnorm_new == prune_batchnorm(batchnorm_old, filter_index)
        conv_next_new == prune_convolution(conv_next_old, filter_index, FALSE)
        bb_new == BasicBlockDummy(conv_new.val, batchnorm_new.val, conv_next_new.val,
                                  bb_old.bn2, bb_old.downsample, bb_old.stride)
    IN  IF is_floor(conv_old) THEN Return(n)
        ELSE IF ~conv_new.ok \/ ~batchnorm_new.ok \/ ~conv_next_new.ok THEN Raise(n)
        ELSE IF kt = 0
             THEN Return(SetStage(n, index_stage, bb_new, Block(n, index_stage, 1)))
             ELSE Return(SetStage(n, index_stage, Block(n, index_stage, 0), bb_new))

\* index_block == 1: conv2 of the first block of a stage
prune_block0_conv2(n, index_stage, filter_index) ==
    LET bb_1_old         == Block(n, index_stage, 0)
        bb_2_old         == Block(n, index_stage, 1)
        conv_old         == bb_1_old.conv2
        batchnorm_old    == bb_1_old.bn2
        conv_next_old    == bb_2_old.conv1
        downsample_1_old == bb_1_old.downsample
        downsample_2_old == bb_2_old.downsample
        conv_new         == prune_convolution(conv_old, filter_index, TRUE)
        batchnorm_new    == prune_batchnorm(batchnorm_old, filter_index)
        conv_next_new    == prune_convolution(conv_next_old, filter_index, FALSE)
        conv_downsample_1_new      == prune_convolution(downsample_1_old[1], filter_index, TRUE)
        batchnorm_downsample_1_new == prune_batchnorm(downsample_1_old[2], filter_index)
        downsample_1_new ==
            IF downsample_1_old = None
            THEN init_downsample(in_channels(bb_1_old.conv1), num_features(batchnorm_new.val))
            ELSE <<conv_downsample_1_new.val, batchnorm_downsample_1_new.val>>
        conv_downsample_2_new == prune_convolution(downsample_2_old[1], filter_index, FALSE)
        downsample_2_new ==
            IF downsample_2_old = None
            THEN init_downsample(in_channels(conv_next_new.val), num_features(bb_2_old.bn2))
            ELSE <<conv_downsample_2_new.val, downsample_2_old[2]>>
        bb_1_new == BasicBlockDummy(bb_1_old.conv1, bb_1_old.bn1, conv_new.val,
                                    batchnorm_new.val, downsample_1_new, bb_1_old.stride)
        bb_2_new == BasicBlockDummy(conv_next_new.val, bb_2_old.bn1, bb_2_old.conv2,
                                    bb_2_old.bn2, downsample_2_new, bb_2_old.stride)
    IN  IF is_floor(conv_old) THEN Return(n)
        ELSE IF ~conv_new.ok \/ ~batchnorm_new.ok \/ ~conv_next_new.ok THEN Raise(n)
        ELSE IF downsample_1_old # None
                /\ (~conv_downsample_1_new.ok \/ ~batchnorm_downsample_1_new.ok)
             THEN Raise(n)
        ELSE IF downsample_2_old # None /\ ~conv_downsample_2_new.ok THEN Raise(n)
        ELSE Return(SetStage(n, index_stage, bb_1_new, bb_2_new))

\* variant: the conv1 that reads the feature map of the pruned conv2 loses
\* an output filter, not an input channel
prune_block1_conv2_next_out(n, index_stage, filter_index) ==
    LET bb_old           == Block(n, index_stage, 1)
        conv_old         == bb_old.conv2
        batchnorm_old    == bb_old.bn2
        downsample_1_old == bb_old.downsample
        conv_new         == prune_convolution(conv_old, filter_index, TRUE)
        batchnorm_new    == prune_batchnorm(batchnorm_old, filter_index)
        conv_downsample_1_new      == prune_convolution(downsample_1_old[1], filter_index, TRUE)
        batchnorm_downsample_1_new == prune_batchnorm(downsample_1_old[2], filter_index)
        downsample_1_new ==
            IF downsample_1_old = None
            THEN init_downsample(in_channels(bb_old.conv1), out_channels(conv_new.val))
            ELSE <<conv_downsample_1_new.val, batchnorm_downsample_1_new.val>>
        bb_new == BasicBlockDummy(bb_old.conv1, bb_old.bn1, conv_new.val,
                                  batchnorm_new.val, downsample_1_new, bb_old.stride)
        net_1  == SetStage(n, index_stage, Block(n, index_stage, 0), bb_new)
        side_prep_new == prune_convolution(n.side_prep[index_stage + 1], filter_index, FALSE)
        net_2  == [net_1 EXCEPT !.side_prep[index_stage + 1] = side_prep_new.val]
        bb_next_old      == Block(net_2, index_stage + 1, 0)
        conv_next_old    == bb_next_old.conv1
        conv_next_new    == prune_convolution(conv_next_old, filter_index, TRUE)
        downsample_2_old == bb_next_old.downsample
        conv_downsample_2_new == prune_convolution(downsample_2_old[1], filter_index, FALSE)
        downsample_2_new ==
            IF downsample_2_old = None
            THEN init_downsample(in_channels(conv_next_new.val), num_features(bb_next_old.bn2))
            ELSE <<conv_downsample_2_new.val, downsample_2_old[2]>>
        bb_next_new == BasicBlockDummy(conv_next_new.val, bb_next_old.bn1, bb_next_old.conv2,
                                       bb_next_old.bn2, downsample_2_new, bb_next_old.stride)
    IN  IF is_floor(conv_old) THEN Return(n)
        ELSE IF ~conv_new.ok \/ ~batchnorm_new.ok THEN Raise(n)
        ELSE IF downsample_1_old # None
                /\ (~conv_downsample_1_new.ok \/ ~batchnorm_downsample_1_new.ok)
             THEN Raise(n)
        ELSE IF ~side_prep_new.ok THEN Raise(net_1)
        ELSE IF index_stage > 2 THEN Return(net_2)
        ELSE IF ~conv_next_new.ok THEN Raise(net_2)
        ELSE IF downsample_2_old # None /\ ~conv_downsample_2_new.ok THEN Raise(net_2)
        ELSE Return(SetStage(net_2, index_stage + 1, bb_next_new,
                             Block(net_2, index_stage + 1, 1)))

\* index_block == 3: conv2 of the last block of a stage; the stage, its
\* side_prep and the next stage are assigned one after the other
prune_block1_conv2(n, index_stage, filter_index) ==
    LET bb_old           == Block(n, index_stage, 1)
        conv_old         == bb_old.conv2
        batchnorm_old    == bb_old.bn2
        downsample_1_old == bb_old.downsample
        conv_new         == prune_convolution(conv_old, filter_index, TRUE)
        batchnorm_new    == prune_batchnorm(batchnorm_old, filter_index)
        conv_downsample_1_new      == prune_convolution(downsample_1_old[1], filter_index, TRUE)
        batchnorm_downsample_1_new == prune_batchnorm(downsample_1_old[2], filter_index)
        downsample_1_new ==
            IF downsample_1_old = None
            THEN init_downsample(in_channels(bb_old.conv1), out_channels(conv_new.val))
            ELSE <<conv_downsample_1_new.val, batchnorm_downsample_1_new.val>>
        bb_new == BasicBlockDummy(bb_old.conv1, bb_old.bn1, conv_new.val,
                                  batchnorm_new.val, downsample_1_new, bb_old.stride)
        net_1  == SetStage(n, index_stage, Block(n, index_stage, 0), bb_new)
        side_prep_new == prune_convolution(n.side_prep[index_stage + 1], filter_index, FALSE)
        net_2  == [net_1 EXCEPT !.side_prep[index_stage + 1] = side_prep_new.val]
        bb_next_old      == Block(net_2, index_stage + 1, 0)
        conv_next_old    == bb_next_old.conv1
        conv_next_new    == prune_convolution(conv_next_old, filter_index, FALSE)
        downsample_2_old == bb_next_old.downsample
        conv_downsample_2_new == prune_convolution(downsample_2_old[1], filter_index, FALSE)
        downsample_2_new ==
            IF downsample_2_old = None
            THEN init_downsample(in_channels(conv_next_new.val), num_features(bb_next_old.bn2))
            ELSE <<conv_downsample_2_new.val, downsample_2_old[2]>>
        bb_next_new == BasicBlockDummy(conv_next_new.val, bb_next_old.bn1, bb_next_old.conv2,
                                       bb_next_old.bn2, downsample_2_new, bb_next_old.stride)
    IN  IF is_floor(conv_old) THEN Return(n)
        ELSE IF ~conv_new.ok \/ ~batchnorm_new.ok THEN Raise(n)
        ELSE IF downsample_1_old # None
                /\ (~conv_downsample_1_new.ok \/ ~batchnorm_downsample_1_new.ok)
             THEN Raise(n)
        ELSE IF ~side_prep_new.ok THEN Raise(net_1)
        ELSE IF index_stage > 2 THEN Return(net_2)
        ELSE IF ~conv_next_new.ok THEN Raise(net_2)
        ELSE IF downsample_2_old # None /\ ~conv_downsample_2_new.ok THEN Raise(net_2)
        ELSE Return(SetStage(net_2, index_stage + 1, bb_next_new,
                             Block(net_2, index_stage + 1, 1)))

\* net.layer_stages[index_stage] raises IndexError when there is no such stage
prune_resnet18_conv_layer(n, layer_index, filter_index) ==
    IF layer_index = 0 THEN prune_stem(n, filter_index)
    ELSE LET index_stage == (layer_index - 1) \div 4
             index_block == (layer_index - 1) % 4
         IN  IF index_stage + 1 \notin DOMAIN n.layer_stages THEN Raise(n)
             ELSE IF index_block = 0 THEN prune_conv1(n, index_stage, 0, filter_index)
             ELSE IF index_block = 1 THEN prune_block0_conv2(n, index_stage, filter_index)
             ELSE IF index_block = 2 THEN prune_conv1(n, index_stage, 1, filter_index)
             ELSE prune_block1_conv2(n, index_stage, filter_index)

\* the convolution a layer_index designates
TargetConv(n, layer_index) ==
    IF layer_index = 0 THEN n.layer_base.conv
    ELSE LET bb == Block(n, (layer_index - 1) \div 4, ((layer_index - 1) % 4) \div 2)
         IN  IF (layer_index - 1) % 2 = 0 THEN bb.conv1 ELSE bb.conv2

---------------------------------------------------------------------------
(* Any sequence of valid calls *)

Layers == 0..LastLayer

\* the filter indices tried on a convolution with c output channels
FilterInputs(c) == {f \in 0..(c - 1) : f < LowFilters \/ f = c - 1}

NoCall == [layer |-> -1, filter |-> 0, channels |-> 0, outcome |-> "none"]

Outcome(n, r) == IF r.raised THEN "raised" ELSE IF r.net = n THEN "noop" ELSE "pruned"

\* the record of one call: its arguments, the output channel count of the
\* targeted convolution before the call (0 when there is no such layer) and
\* how the call ended
CallRecord(n, layer_index, filter_index, r) ==
    [layer    |-> layer_index,
     filter   |-> filter_index,
     channels |-> IF layer_index \in Layers
                  THEN out_channels(TargetConv(n, layer_index)) ELSE 0,
     outcome  |-> Outcome(n, r)]

\* no training call has been made
NoTraining == [step |-> "none", epochs |-> {}]

\* no call has returned at the one-channel test
NoNoops == [l \in Layers |-> 0]

\* noops after a call on layer_index that ended with outcome
CountNoop(count, layer_index, outcome) ==
    IF outcome = "noop" THEN [count EXCEPT ![layer_index] = @ + 1] ELSE count

\* main is not running
NoMain ==
    /\ percentage = 0
    /\ index_iteration = 0
    /\ fine_tune_calls = 0
    /\ n_filters_start = 0
    /\ is_offline_mode = FALSE
    /\ dataloader_train = "none"
    /\ files = <<>>
    /\ tests = <<>>
    /\ n_epochs_select = 0
    /\ n_epochs_finetune = 0
    /\ trained = NoTraining

NoRanking ==
    /\ filter_ranks = <<>>
    /\ skip_layer = {}
    /\ budget = 0
    /\ lowest = <<>>
    /\ prune_targets = <<>>
    /\ index_target = 0
    /\ net_ranked = <<>>
    /\ shrink_to = <<>>

Init ==
    /\ net = get_net
    /\ call = NoCall
    /\ nCalls = 0
    /\ pc = "calls"
    /\ noops = NoNoops
    /\ NoRanking
    /\ NoMain

\* one call prune_resnet18_conv_layer(net, layer_index, filter_index) with
\* 0 <= filter_index < out_channels of the targeted convolution
Prune ==
    /\ pc = "calls"
    /\ nCalls < MaxCalls
    /\ \E layer_index \in Layers :
         \E filter_index \in FilterInputs(out_channels(TargetConv(net, layer_index))) :
            \E r \in {prune_resnet18_conv_layer(net, layer_index, filter_index)} :
                /\ net' = r.net
                /\ call' = CallRecord(net, layer_index, filter_index, r)
                /\ noops' = CountNoop(noops, layer_index, Outcome(net, r))
    /\ nCalls' = nCalls + 1
    /\ UNCHANGED <<pc, rank_vars, main_vars>>

Next == Prune

Spec == Init /\ [][Next]_vars

---------------------------------------------------------------------------
(* Any sequence of calls, malformed ones included *)

\* the first index, and indices below and beyond both ends of the range
\* 0 .. c-1 of a convolution with c output channels
AnyFilterInputs(c) == {-(c + 1), -c, -2, -1, 0, c, c + 1}

TargetChannels(n, layer_index) ==
    IF layer_index \in Layers THEN out_channels(TargetConv(n, layer_index)) ELSE 0

PruneAny ==
    /\ pc = "calls"
    /\ nCalls < MaxCalls
    /\ \E layer_index \in 0..(LastLayer + 1) :
         \E filter_index \in AnyFilterInputs(TargetChannels(net, layer_index)) :
            \E r \in {prune_resnet18_conv_layer(net, layer_index, filter_index)} :
                /\ net' = r.net
                /\ call' = CallRecord(net, layer_index, filter_index, r)
                /\ noops' = CountNoop(noops, layer_index, Outcome(net, r))
    /\ nCalls' = nCalls + 1
    /\ UNCHANGED <<pc, rank_vars, main_vars>>

NextAny == PruneAny

SpecAny == Init /\ [][NextAny]_vars

---------------------------------------------------------------------------
(* Shape invariants of the network *)

Stages == 0..(NStages - 1)

Stem == net.layer_base

\* C1: after every valid call, in every residual block conv1.out_channels =
\* bn1.num_features = conv2.in_channels and conv2.out_channels =
\* bn2.num_features.
BlockChannelsAgree ==
    \A s \in Stages : \A kt \in 0..1 :
        LET bb == Block(net, s, kt)
        IN  /\ out_channels(bb.conv1) = num_features(bb.bn1)
            /\ num_features(bb.bn1) = in_channels(bb.conv2)
            /\ out_channels(bb.conv2) = num_features(bb.bn2)

\* a conv1 and then the conv2 of the same block have been pruned
BlockChannelsWitness ==
    /\ call.outcome = "pruned"
    /\ call.layer = 2
    /\ out_channels(Block(net, 0, 0).conv1) < BaseWidth
    /\ out_channels(Block(net, 0, 0).conv2) < BaseWidth

\* C2: after every valid call, every consumer's input channel count equals
\* its producer's output channel count (stem -> stage 0, block 0 -> block 1,
\* stage -> next stage, stage -> side_prep).
ConsumersMatchProducers ==
    /\ in_channels(Block(net, 0, 0).conv1) = out_channels(Stem.conv)
    /\ out_channels(Stem.conv) = num_features(Stem.bn)
    /\ \A s \in Stages :
          /\ in_channels(Block(net, s, 1).conv1) = out_channels(Block(net, s, 0).conv2)
          /\ in_channels(net.side_prep[s + 1]) = out_channels(Block(net, s, 1).conv2)
          /\ s >= 1 =>
               in_channels(Block(net, s, 0).conv1) = out_channels(Block(net, s - 1, 1).conv2)

\* the stem and then the last conv2 of the second stage have been pruned
ConsumersWitness ==
    /\ call.outcome = "pruned"
    /\ call.layer = 8
    /\ out_channels(Stem.conv) < BaseWidth
    /\ in_channels(net.side_prep[2]) < Planes(BaseWidth, 2)
    /\ in_channels(Block(net, 2, 0).conv1) < Planes(BaseWidth, 2)

\* C3: after every valid call, the residual sum of every block is
\* shape-consistent: with a downsample path, its conv out_channels = its
\* batch-norm features = bn2.num_features and its conv in_channels =
\* conv1.in_channels; without one, conv1.in_channels = conv2.out_channels.
ResidualShapesAgree ==
    \A s \in Stages : \A kt \in 0..1 :
        LET bb == Block(net, s, kt)
        IN  IF bb.downsample # None
            THEN /\ out_channels(bb.downsample[1]) = num_features(bb.downsample[2])
                 /\ num_features(bb.downsample[2]) = num_features(bb.bn2)
                 /\ in_channels(bb.downsample[1]) = in_channels(bb.conv1)
            ELSE in_channels(bb.conv1) = out_channels(bb.conv2)

\* a synthesized downsample path (stage 0, block 0) has been resized by a
\* later call on the conv2 it runs in parallel with
ResidualWitness ==
    /\ call.outcome = "pruned"
    /\ call.layer = 2
    /\ out_channels(Stem.conv) < BaseWidth
    /\ Block(net, 0, 0).downsample # None
    /\ Block(net, 0, 1).downsample # None
    /\ Block(net, 1, 0).downsample # None

---------------------------------------------------------------------------
(* The effect of one call *)

\* a step that makes one call
IsCall == nCalls' = nCalls + 1

\* new is old without the entry at 0-based position f
SliceRemoved(old, new, f) ==
    /\ Len(new) = Len(old) - 1
    /\ \A p \in 1..Len(new) : new[p] = IF p - 1 < f THEN old[p] ELSE old[p + 1]

\* the normalization layer paired with the convolution of layer_index
PairedNorm(n, layer_index) ==
    IF layer_index = 0 THEN n.layer_base.bn
    ELSE LET bb == Block(n, (layer_index - 1) \div 4, ((layer_index - 1) % 4) \div 2)
         IN  IF (layer_index - 1) % 2 = 0 THEN bb.bn1 ELSE bb.bn2

\* the downsample convolution of a block of n, if the block had one in pre
ExistingDownsample(n, pre, index_stage, kt) ==
    IF Block(pre, index_stage, kt).downsample = None THEN <<>>
    ELSE <<Block(n, index_stage, kt).downsample[1]>>

\* the block whose conv1 reads the feature map a conv2 (or the stem) produces
Successor(n, pre, index_stage, kt) ==
    <<Block(n, index_stage, kt).conv1>> \o ExistingDownsample(n, pre, index_stage, kt)

\* the convolutions of n that read the feature map of layer_index (downsample
\* convolutions count when they existed in pre)
ConsumerConvs(n, pre, layer_index) ==
    LET index_stage == (layer_index - 1) \div 4
        index_block == (layer_index - 1) % 4
    IN  IF layer_index = 0 THEN Successor(n, pre, 0, 0)
        ELSE IF index_block = 0 THEN <<Block(n, index_stage, 0).conv2>>
        ELSE IF index_block = 1 THEN Successor(n, pre, index_stage, 1)
        ELSE IF index_block = 2 THEN <<Block(n, index_stage, 1).conv2>>
        ELSE <<n.side_prep[index_stage + 1]>>
             \o (IF index_stage <= 2 THEN Successor(n, pre, index_stage + 1, 0) ELSE <<>>)

\* channel counts: the convolution and its normalization layer lose one
\* output channel, every consumer loses one input channel
CountsShrink(pre, post, l) ==
    /\ out_channels(TargetConv(post, l)) = out_channels(TargetConv(pre, l)) - 1
    /\ num_features(PairedNorm(post, l)) = num_features(PairedNorm(pre, l)) - 1
    /\ \A i \in DOMAIN ConsumerConvs(pre, pre, l) :
          in_channels(ConsumerConvs(post, pre, l)[i])
              = in_channels(ConsumerConvs(pre, pre, l)[i]) - 1

\* convolution weights: the slice removed is the one at index f
WeightsShift(pre, post, l, f) ==
    /\ SliceRemoved(TargetConv(pre, l).out, TargetConv(post, l).out, f)
    /\ \A i \in DOMAIN ConsumerConvs(pre, pre, l) :
          SliceRemoved(ConsumerConvs(pre, pre, l)[i].in,
                       ConsumerConvs(post, pre, l)[i].in, f)

\* every parameter vector of the normalization layer: the entry removed is
\* the one at index f
NormShifts(pre, post, l, f) ==
    /\ SliceRemoved(PairedNorm(pre, l).weight, PairedNorm(post, l).weight, f)
    /\ SliceRemoved(PairedNorm(pre, l).bias, PairedNorm(post, l).bias, f)
    /\ SliceRemoved(PairedNorm(pre, l).running, PairedNorm(post, l).running, f)

\* C4: a valid call on a convolution with C > 1 output channels leaves it and
\* its normalization layer with C - 1 channels, takes one input channel from
\* every consumer, and in each resized tensor keeps the entries before
\* filter_index in place and moves those after it down by one.
PruneRemovesIndexedSlice ==
    [][(IsCall /\ call'.channels > 1)
          => /\ CountsShrink(net, net', call'.layer)
             /\ WeightsShift(net, net', call'.layer, call'.filter)
             /\ NormShifts(net, net', call'.layer, call'.filter)]_vars

\* what the code does keep of C4: the counts, every convolution weight and
\* the normalization scale
PruneShiftsWeights ==
    [][(IsCall /\ call'.channels > 1)
          => /\ CountsShrink(net, net', call'.layer)
             /\ WeightsShift(net, net', call'.layer, call'.filter)
             /\ SliceRemoved(PairedNorm(net, call'.layer).weight,
                             PairedNorm(net', call'.layer).weight, call'.filter)]_vars

\* C5: a call on a layer whose convolution has exactly 1 output channel
\* raises nothing and leaves the whole network as it was, for every layer
\* role and every filter_index.
FloorCallIsNoOp ==
    [][(IsCall /\ call'.channels = 1) => (net' = net /\ call'.outcome = "noop")]_vars

\* a call at the floor on the last conv2 of a stage, with an out-of-range
\* filter_index, has returned
FloorCallWitness ==
    /\ call.channels = 1
    /\ call.layer = 4
    /\ call.filter = 2
    /\ call.outcome = "noop"
    /\ out_channels(Block(net, 0, 1).conv2) = 1

\* C10: a call whose layer_index is not in 0..16 or whose filter_index is not
\* in 0..C-1 signals an error.
MalformedCallRaises ==
    (call.outcome # "none"
       /\ (call.layer \notin Layers \/ call.filter \notin 0..(call.channels - 1)))
    => call.outcome = "raised"

---------------------------------------------------------------------------
(* FilterPruner: the ranking *)

\* normalized scores; equal scores are ties
Scores == {0, 1}

\* variant: a layer is skipped only below the floor, not at it
should_skip_below(conv) == out_channels(conv) < N_MIN_CHANNELS

\* forward: "if l.out_channels <= N_MIN_CHANNELS: self.skip_layer.append(kk)"
should_skip(conv) == out_channels(conv) <= N_MIN_CHANNELS

\* skip_layer after a forward pass over network n
forward_skip_layer(n) == {l \in Layers : should_skip(TargetConv(n, l))}

\* variant: the triples are keyed by their filter index
itemgetter_1(elem) == elem[2]

\* operator.itemgetter(2): the score of a (layer, filter, score) triple
itemgetter_2(elem) == elem[3]

\* variant: range(size - 1), the last filter of the layer is left out
LayerRowsShort(ranks, l) == [j \in 1..(Len(ranks[l]) - 1) |-> <<l, j - 1, ranks[l][j]>>]

\* the triples (index_layer, j, filter_ranks[i][j]) of one layer, j ascending
LayerRows(ranks, l) == [j \in 1..Len(ranks[l]) |-> <<l, j - 1, ranks[l][j]>>]

\* data: for i in sorted(filter_ranks.keys()): for j in range(size): append
\* unless the layer is in skip_layer
RECURSIVE Data(_, _, _)
Data(ranks, skip, l) ==
    IF l > LastLayer THEN <<>>
    ELSE (IF l \in skip THEN <<>> ELSE LayerRows(ranks, l)) \o Data(ranks, skip, l + 1)

\* heapq.nsmallest(n, data, key) returns sorted(data, key=key)[:n]; sorted is
\* stable: of two elements with equal keys the one met first in data stays
\* first
nsmallest(n, data) ==
    IF n <= 0 THEN <<>>
    ELSE SubSeq(SortSeq(data, LAMBDA a, b : itemgetter_2(a) < itemgetter_2(b)),
                1, Min(n, Len(data)))

lowest_ranking_filters(ranks, skip, n_filters_to_prune_per_iter) ==
    nsmallest(n_filters_to_prune_per_iter, Data(ranks, skip, 0))

\* variant: the keys of filters_to_prune_per_layer in ascending order
PlanLayersAscending(filters_to_prune, i) ==
    LET L == { filters_to_prune[h][1] : h \in 1..Len(filters_to_prune) }
    IN  [p \in 1..Cardinality(L) |->
           CHOOSE l \in L : Cardinality({ m \in L : m < l }) = p - 1]

\* the keys of filters_to_prune_per_layer, in the order they were inserted
RECURSIVE PlanLayers(_, _)
PlanLayers(filters_to_prune, i) ==
    IF i > Len(filters_to_prune) THEN <<>>
    ELSE LET l == filters_to_prune[i][1]
         IN  (IF \E h \in 1..(i - 1) : filters_to_prune[h][1] = l THEN <<>> ELSE <<l>>)
             \o PlanLayers(filters_to_prune, i + 1)

\* sorted(...) of a set of distinct integers
RECURSIVE Sorted(_)
Sorted(S) ==
    IF S = {} THEN <<>>
    ELSE LET x == CHOOSE y \in S : \A z \in S : y <= z
         IN  <<x>> \o Sorted(S \ {x})

\* variant: the index is emitted as selected, not adjusted for earlier removals
adjusted_not(f, i) == f

\* filters_to_prune_per_layer[l][i] - i
adjusted(f, i) == f - i

\* the entries (l, adjusted index) of layer l
LayerPlan(filters_to_prune, l) ==
    LET fs == Sorted({filters_to_prune[h][2] :
                        h \in {h \in 1..Len(filters_to_prune) : filters_to_prune[h][1] = l}})
    IN  [i \in 1..Len(fs) |-> <<l, adjusted(fs[i], i - 1)>>]

RECURSIVE EmitPlan(_, _, _)
EmitPlan(filters_to_prune, layers, i) ==
    IF i > Len(layers) THEN <<>>
    ELSE LayerPlan(filters_to_prune, layers[i]) \o EmitPlan(filters_to_prune, layers, i + 1)

\* get_prunning_plan, from the result of lowest_ranking_filters (the dict
\* filters_to_prune_per_layer iterates in insertion order)
get_prunning_plan(filters_to_prune) ==
    EmitPlan(filters_to_prune, PlanLayers(filters_to_prune, 1), 1)

---------------------------------------------------------------------------
(* RANK, PRUNE_BATCH and FINE_TUNE of one inner iteration, on networks in
   which few layers are left above the minimum-channel floor *)

\* every layer at the floor or below, except the listed ones
Target(open) == [l \in Layers |-> IF l \in DOMAIN open THEN open[l] ELSE N_MIN_CHANNELS]

RankTargets ==
    { Target(9 :> 8), Target(12 :> 5), Target(10 :> 5 @@ 13 :> 5),
      Target(12 :> 5 @@ 13 :> 5) }

InitRank ==
    /\ net = get_net
    /\ call = NoCall
    /\ nCalls = 0
    /\ pc = "shrink"
    /\ budget \in 1..MaxBudget
    /\ filter_ranks = <<>>
    /\ skip_layer = {}
    /\ lowest = <<>>
    /\ prune_targets = <<>>
    /\ index_target = 0
    /\ net_ranked = <<>>
    /\ shrink_to \in RankTargets
    /\ noops = NoNoops
    /\ NoMain

\* the layers an earlier iteration still has to prune
TooWide(n, target) == {l \in Layers : out_channels(TargetConv(n, l)) > target[l]}

\* main, earlier iterations: one prune_resnet18_conv_layer call of an earlier
\* plan; the inner loop goes on to the next ranking when the plans are done
Shrink ==
    /\ pc = "shrink"
    /\ IF TooWide(net, shrink_to) = {}
       THEN /\ pc' = "rank"
            /\ net' = net
       ELSE /\ pc' = "shrink"
            /\ \E l \in TooWide(net, shrink_to) :
                  /\ \A h \in TooWide(net, shrink_to) : l <= h
                  /\ net' = prune_resnet18_conv_layer(net, l, 0).net
    /\ UNCHANGED <<call, nCalls, noops, rank_vars, main_vars>>

\* the filters whose score is varied one by one: those of the layers above
\* the floor; all other filters of a ranking share one score
VariedFilters(n) ==
    UNION { {<<l, j>> : j \in 1..out_channels(TargetConv(n, l))} :
            l \in {l \in Layers : out_channels(TargetConv(n, l)) > N_MIN_CHANNELS} }

\* the rankings of network n: at most MaxLowScores of the varied filters
\* have the low score, the other varied filters the high one
RankInputs(n) ==
    { [l \in Layers |->
         [j \in 1..out_channels(TargetConv(n, l)) |->
            IF <<l, j>> \in low THEN 0
            ELSE IF <<l, j>> \in VariedFilters(n) THEN 1 ELSE v]] :
      low \in {S \in SUBSET VariedFilters(n) : Cardinality(S) <= MaxLowScores},
      v \in Scores }

\* variant: the forward pass takes a filter from the stem
train_for_pruning_shrinks(n, ranks) ==
    [net          |-> prune_resnet18_conv_layer(n, 0, 0).net,
     filter_ranks |-> ranks,
     skip_layer   |-> forward_skip_layer(n)]

\* train_for_pruning: forward and backward passes over the training data;
\* the hooks fill filter_ranks, forward fills skip_layer, and every layer of
\* the network is called, none is replaced
train_for_pruning(n, ranks) ==
    [net          |-> n,
     filter_ranks |-> ranks,
     skip_layer   |-> forward_skip_layer(n)]

\* get_candidates_to_prune: train_for_pruning fills filter_ranks and
\* skip_layer, normalize_ranks_per_layer, get_prunning_plan
Rank ==
    /\ pc = "rank"
    /\ \E ranks \in RankInputs(net) :
         \E t \in {train_for_pruning(net, ranks)} :
            /\ net' = t.net
            /\ filter_ranks' = t.filter_ranks
            /\ skip_layer' = t.skip_layer
            /\ lowest' = lowest_ranking_filters(t.filter_ranks, t.skip_layer, budget)
            /\ prune_targets' = get_prunning_plan(
                                   lowest_ranking_filters(t.filter_ranks, t.skip_layer, budget))
    /\ index_target' = 0
    /\ net_ranked' = net
    /\ pc' = "prune"
    /\ UNCHANGED <<call, nCalls, noops, budget, shrink_to, main_vars>>

\* main: for layer_index, filter_index in prune_targets:
\*           net = prune_resnet18_conv_layer(net, layer_index, filter_index)
PruneTarget ==
    /\ pc = "prune"
    /\ index_target < Len(prune_targets)
    /\ \E layer_index \in {prune_targets[index_target + 1][1]} :
         \E filter_index \in {prune_targets[index_target + 1][2]} :
            \E r \in {prune_resnet18_conv_layer(net, layer_index, filter_index)} :
                /\ net' = r.net
                /\ call' = CallRecord(net, layer_index, filter_index, r)
                /\ noops' = CountNoop(noops, layer_index, Outcome(net, r))
                /\ pc' = IF r.raised THEN "raised" ELSE "prune"
    /\ index_target' = index_target + 1
    /\ nCalls' = nCalls + 1
    /\ UNCHANGED <<filter_ranks, skip_layer, budget, lowest, prune_targets, net_ranked,
                   shrink_to, main_vars>>

\* main: fine_tune(net, ...) once every plan entry has been applied; training
\* changes no shape
FineTune ==
    /\ pc = "prune"
    /\ index_target = Len(prune_targets)
    /\ pc' = "done"
    /\ UNCHANGED <<net, call, nCalls, noops, rank_vars, main_vars>>

NextRank == Shrink \/ Rank \/ PruneTarget \/ FineTune

SpecRank == InitRank /\ [][NextRank]_vars

---------------------------------------------------------------------------
(* The plan of one ranking *)

\* a ranking has been taken: lowest and prune_targets hold its result
Ranked == pc \in {"prune", "done", "raised"}

\* data of lowest_ranking_filters as a set: the triples of the layers that
\* are not in skip_layer
Pool ==
    UNION { { <<l, j - 1, filter_ranks[l][j]>> : j \in 1..Len(filter_ranks[l]) } :
            l \in Layers \ skip_layer }

\* a comes before b in a stable sort of data by score: lower score, or equal
\* score and met earlier (layer order, then filter order)
Before(a, b) ==
    \/ a[3] < b[3]
    \/ a[3] = b[3] /\ (a[1] < b[1] \/ (a[1] = b[1] /\ a[2] < b[2]))

\* C7: lowest_ranking_filters(N) is the first N elements of a stable sort, by
\* score, of the pool of triples of the non-skipped layers taken in layer
\* order then filter order: N of them (all, when the pool is smaller), in
\* sorted order, and every triple left out sorts behind every triple taken.
LowestIsStablePrefix ==
    Ranked =>
       /\ Len(lowest) = Min(budget, Cardinality(Pool))
       /\ \A p \in 1..Len(lowest) : lowest[p] \in Pool
       /\ \A p, q \in 1..Len(lowest) : p < q => Before(lowest[p], lowest[q])
       /\ \A t \in Pool :
             (\A p \in 1..Len(lowest) : lowest[p] # t)
                => \A p \in 1..Len(lowest) : Before(lowest[p], t)

\* the selection takes filters of two layers and cuts through a tie: a
\* triple left out has the score of the last triple taken
LowestWitness ==
    /\ Ranked
    /\ Len(lowest) = budget
    /\ \E p, q \in 1..Len(lowest) : lowest[p][1] # lowest[q][1]
    /\ \E t \in Pool :
          /\ \A p \in 1..Len(lowest) : lowest[p] # t
          /\ t[3] = lowest[Len(lowest)][3]

\* C8: no entry of the plan returned by get_candidates_to_prune targets a
\* convolution that had N_MIN_CHANNELS or fewer output channels when the
\* ranking was taken, whatever the scores and the budget.
SkippedLayersNeverPlanned ==
    Ranked =>
       /\ \A p \in 1..Len(prune_targets) :
             out_channels(TargetConv(net_ranked, prune_targets[p][1])) > N_MIN_CHANNELS
       /\ \A p \in 1..Len(lowest) :
             out_channels(TargetConv(net_ranked, lowest[p][1])) > N_MIN_CHANNELS

\* a layer with exactly N_MIN_CHANNELS output channels has the lowest score
\* on every filter, the budget is not used up, and the plan still takes only
\* higher-scored filters of another layer
SkippedLayerWitness ==
    /\ Ranked
    /\ 0 < Len(prune_targets)
    /\ Len(prune_targets) < budget
    /\ \A p \in 1..Len(lowest) : lowest[p][3] = 1
    /\ \E l \in Layers :
          /\ out_channels(TargetConv(net_ranked, l)) = N_MIN_CHANNELS
          /\ \A j \in 1..Len(filter_ranks[l]) : filter_ranks[l][j] = 0

\* the filters of network n that a ranking may select
Candidates(n) ==
    UNION { { <<l, j>> : j \in 0..(out_channels(TargetConv(n, l)) - 1) } :
            l \in { l \in Layers : out_channels(TargetConv(n, l)) > N_MIN_CHANNELS } }

\* C9: every RANK step returns a plan of exactly budget entries.
PlanHasBudgetEntries ==
    Ranked => Len(prune_targets) = budget

\* C9, as the code has it: the plan has budget entries, or one entry for
\* every filter of the layers above the minimum-channel floor when those are
\* fewer than the budget.
PlanHasBudgetOrPoolEntries ==
    Ranked => Len(prune_targets) = Min(budget, Cardinality(Candidates(net_ranked)))

\* a ranking whose plan is shorter than the budget
ShortPlanWitness ==
    /\ Ranked
    /\ 0 < Len(prune_targets)
    /\ Len(prune_targets) < budget
    /\ Len(prune_targets) = Cardinality(Candidates(net_ranked))

---------------------------------------------------------------------------
(* The plan applied: PRUNE_BATCH after RANK *)

\* the original filter indices lowest_ranking_filters selected in layer l
SelectedIn(l) == { lowest[h][2] : h \in { h \in 1..Len(lowest) : lowest[h][1] = l } }

\* the adjusted indices the plan holds for layer l, in plan order
RECURSIVE EmittedFrom(_, _)
EmittedFrom(l, p) ==
    IF p > Len(prune_targets) THEN <<>>
    ELSE (IF prune_targets[p][1] = l THEN <<prune_targets[p][2]>> ELSE <<>>)
         \o EmittedFrom(l, p + 1)

\* for i_0 < i_1 < ... < i_m selected in layer l the plan holds i_j - j, in
\* that order
EmitsAdjusted(l) ==
    LET S == SelectedIn(l)
        E == EmittedFrom(l, 1)
    IN  /\ Len(E) = Cardinality(S)
        /\ \A p \in 1..Len(E) :
              /\ E[p] + (p - 1) \in S
              /\ Cardinality({ y \in S : y < E[p] + (p - 1) }) = p - 1

\* the filters of conv (creation-time identifiers) without those at the
\* positions in S
Without(conv, S) ==
    LET keep == Sorted((0..(out_channels(conv) - 1)) \ S)
    IN  [p \in 1..Len(keep) |-> conv.out[keep[p] + 1]]

\* C6: for the indices i_0 < ... < i_m selected in a layer the plan holds the
\* adjusted indices i_j - j in that order, and the prune_resnet18_conv_layer
\* calls of the plan remove from the layer exactly the original filters
\* i_0 ... i_m and no others.
PlanRemovesSelected ==
    pc = "done" =>
       \A l \in Layers :
          /\ EmitsAdjusted(l)
          /\ TargetConv(net, l).out = Without(TargetConv(net_ranked, l), SelectedIn(l))

\* the filters a plan removes from layer l: the selected ones, but the
\* highest one stays when every filter of the layer is selected, because the
\* last call then finds a single output channel and returns the network as is
RemovedBy(l) ==
    LET C == out_channels(TargetConv(net_ranked, l))
    IN  IF SelectedIn(l) = 0..(C - 1) THEN SelectedIn(l) \ {C - 1} ELSE SelectedIn(l)

\* C6, as the code has it: the plan holds the adjusted indices i_j - j in
\* that order, and its calls remove exactly the selected filters, unless the
\* whole layer is selected: then its highest-indexed filter is kept.
PlanRemovesSelectedAboveFloor ==
    pc = "done" =>
       \A l \in Layers :
          /\ EmitsAdjusted(l)
          /\ TargetConv(net, l).out = Without(TargetConv(net_ranked, l), RemovedBy(l))

\* filters 2, 5 and 7 of one layer were selected, the plan held 2, 4, 5 and
\* has been applied
RemapWitness ==
    /\ pc = "done"
    /\ SelectedIn(9) = {2, 5, 7}
    /\ prune_targets = << <<9, 2>>, <<9, 4>>, <<9, 5>> >>
    /\ out_channels(TargetConv(net, 9)) = out_channels(TargetConv(net_ranked, 9)) - 3

---------------------------------------------------------------------------
(* One call as a unit *)

\* the channel counts of network n agree along every edge of the structure
ShapesAgree(n) ==
    /\ in_channels(Block(n, 0, 0).conv1) = out_channels(n.layer_base.conv)
    /\ out_channels(n.layer_base.conv) = num_features(n.layer_base.bn)
    /\ \A s \in Stages :
          /\ in_channels(Block(n, s, 1).conv1) = out_channels(Block(n, s, 0).conv2)
          /\ in_channels(n.side_prep[s + 1]) = out_channels(Block(n, s, 1).conv2)
          /\ s >= 1 =>
               in_channels(Block(n, s, 0).conv1) = out_channels(Block(n, s - 1, 1).conv2)
          /\ \A kt \in 0..1 :
                LET bb == Block(n, s, kt)
                IN  /\ out_channels(bb.conv1) = num_features(bb.bn1)
                    /\ num_features(bb.bn1) = in_channels(bb.conv2)
                    /\ out_channels(bb.conv2) = num_features(bb.bn2)
                    /\ IF bb.downsample # None
                       THEN /\ out_channels(bb.downsample[1]) = num_features(bb.downsample[2])
                            /\ num_features(bb.downsample[2]) = num_features(bb.bn2)
                            /\ in_channels(bb.downsample[1]) = in_channels(bb.conv1)
                       ELSE in_channels(bb.conv1) = out_channels(bb.conv2)

\* C11: every call to prune_resnet18_conv_layer either returns with the whole
\* set of dependent tensors resized consistently (or with nothing resized, at
\* the floor), or signals an error and leaves the network exactly as it was,
\* for every layer role and every argument pair.
CallIsAtomic ==
    [][IsCall =>
          IF call'.outcome = "raised" THEN net' = net
          ELSE /\ ShapesAgree(net')
               /\ call'.outcome = "noop" \/ CountsShrink(net, net', call'.layer)]_vars

\* a call on the conv2 of the last block of a stage, above the floor, has
\* signalled an error
AtomicWitness ==
    /\ call.outcome = "raised"
    /\ call.layer \in {4, 8, 12}
    /\ call.channels > 1

---------------------------------------------------------------------------
(* main: milestones, inner iterations, checkpoints and evaluation *)

\* width of the stem in the runs of main that are explored
MainWidth == 5

percentage_prune_max == 90

percentage_prune_steps == 10

\* the values of --prune-per-iter that are explored (64 is the default)
PruneBudgets == {8, 16, 64}

\* variant: the convolutions of the downsample paths are counted as well
RECURSIVE SumFiltersAndDownsample(_, _)
SumFiltersAndDownsample(n, l) ==
    IF l > LastLayer THEN 0
    ELSE out_channels(TargetConv(n, l))
         + (IF l > 0 /\ (l - 1) % 2 = 1
               /\ Block(n, (l - 1) \div 4, ((l - 1) % 4) \div 2).downsample # None
            THEN out_channels(Block(n, (l - 1) \div 4, ((l - 1) % 4) \div 2).downsample[1])
            ELSE 0)
         + SumFiltersAndDownsample(n, l + 1)

\* total_num_filters: the stem convolution, then conv1 and conv2 of every block
RECURSIVE SumFilters(_, _)
SumFilters(n, l) ==
    IF l > LastLayer THEN 0 ELSE out_channels(TargetConv(n, l)) + SumFilters(n, l + 1)

total_num_filters(n) == SumFilters(n, 0)

\* variant: one inner iteration per milestone
n_iterations_one(n_start, per_iter) == 1

\* 1 + int(n_filters_start / n_filters_to_prune_per_iter * percentage_prune_steps / 100)
n_iterations(n_start, per_iter) ==
    1 + (n_start * percentage_prune_steps) \div (per_iter * 100)

\* the training sets explored, by the scores they give: "flat" scores every
\* filter alike, "deep" scores the filters of the last two stages lowest,
\* "odd" scores every second filter of a layer lowest
DataLoaders == {"flat", "deep", "odd"}

\* filter_ranks after train_for_pruning and normalize_ranks_per_layer
TrainRanks(n, loader) ==
    [l \in Layers |->
       [j \in 1..out_channels(TargetConv(n, l)) |->
          IF loader = "deep" THEN (IF l >= 9 THEN 0 ELSE 1)
          ELSE IF loader = "odd" THEN j % 2
          ELSE 1]]

\* variant: one file for all milestones
path_output_model_flat(p, offline) ==
    <<"models", IF offline THEN "offline" ELSE "sequence_name",
      IF offline THEN "240.pth" ELSE "10000.pth">>

\* path_output_model_base / str(percentage) / ('offline' | sequence_name) / file
path_output_model(p, offline) ==
    <<"models", p, IF offline THEN "offline" ELSE "sequence_name",
      IF offline THEN "240.pth" ELSE "10000.pth">>

\* variant: the loop over the plan is left one entry early
loop_ends_early(i, plan) == i + 1 >= Len(plan)

\* "for layer_index, filter_index in prune_targets" is exhausted
loop_ends(i, plan) == i = Len(plan)

\* variant: the image run comes first
eval_speeds_swapped(i) == i = 2

\* eval_speeds of the i-th experiment_helper.test call of a milestone
eval_speeds(i) == i = 1

\* the pairs (--n-epochs-select, --n-epochs-finetune) that are explored
EpochSettings == { <<1, 2>>, <<2, 1>> }

\* range(epoch_start, epoch_end) of train_for_pruning and of fine_tune, with
\* epoch_start = iteration * n_epochs + 1 and epoch_end = epoch_start + n_epochs + 1
epoch_range(iteration, n_epochs) ==
    LET epoch_start == iteration * n_epochs + 1
        epoch_end   == epoch_start + n_epochs + 1
    IN  epoch_start..(epoch_end - 1)

InitMain ==
    /\ net = OSVOS_RESNET(MainWidth)
    /\ call = NoCall
    /\ nCalls = 0
    /\ pc = "rank"
    /\ budget \in PruneBudgets
    /\ filter_ranks = <<>>
    /\ skip_layer = {}
    /\ lowest = <<>>
    /\ prune_targets = <<>>
    /\ index_target = 0
    /\ net_ranked = <<>>
    /\ shrink_to = <<>>
    /\ percentage = percentage_prune_steps
    /\ index_iteration = 0
    /\ fine_tune_calls = 0
    /\ n_filters_start = total_num_filters(OSVOS_RESNET(MainWidth))
    /\ is_offline_mode \in BOOLEAN
    /\ dataloader_train \in DataLoaders
    /\ files = <<>>
    /\ tests = <<>>
    /\ \E e \in EpochSettings : n_epochs_select = e[1] /\ n_epochs_finetune = e[2]
    /\ trained = NoTraining
    /\ noops = NoNoops

\* prune_targets = get_candidates_to_prune(net, n_filters_to_prune_per_iter,
\*                     dataloader_train, n_epochs_select, summary_writer,
\*                     fine_tune_calls, is_offline_mode)
MainRank ==
    /\ pc = "rank"
    /\ \E t \in {train_for_pruning(net, TrainRanks(net, dataloader_train))} :
         \E chosen \in {lowest_ranking_filters(t.filter_ranks, t.skip_layer, budget)} :
            /\ net' = t.net
            /\ filter_ranks' = t.filter_ranks
            /\ skip_layer' = t.skip_layer
            /\ lowest' = chosen
            /\ prune_targets' = get_prunning_plan(chosen)
    /\ trained' = [step |-> "rank", epochs |-> epoch_range(fine_tune_calls, n_epochs_select)]
    /\ index_target' = 0
    /\ net_ranked' = net
    /\ pc' = "prune"
    /\ UNCHANGED <<call, nCalls, noops, budget, shrink_to, percentage, index_iteration,
                   fine_tune_calls, n_filters_start, is_offline_mode, dataloader_train,
                   files, tests, n_epochs_select, n_epochs_finetune>>

\* an exception raised while a minibatch of train_for_pruning is processed
\* leaves get_candidates_to_prune and main: neither has a handler
RankFails ==
    /\ pc = "rank"
    /\ pc' = "sample_raised"
    /\ UNCHANGED <<net, call, nCalls, noops, rank_vars, main_vars>>

\* an exception raised while a minibatch of calculate_loss is processed
\* leaves fine_tune and main: neither has a handler
FineTuneFails ==
    /\ pc = "prune"
    /\ loop_ends(index_target, prune_targets)
    /\ pc' = "sample_raised"
    /\ UNCHANGED <<net, call, nCalls, noops, rank_vars, main_vars>>

\* an exception leaves prune_resnet18_conv_layer for a reason outside the
\* arguments; main catches nothing
PruneFails ==
    /\ pc = "prune"
    /\ index_target < Len(prune_targets)
    /\ pc' = "raised"
    /\ UNCHANGED <<net, call, nCalls, noops, rank_vars, main_vars>>

\* fine_tune(net, ...); fine_tune_calls += 1; then the next inner iteration,
\* or the end of the inner loop
MainFineTune ==
    /\ pc = "prune"
    /\ loop_ends(index_target, prune_targets)
    /\ trained' = [step |-> "fine_tune",
                   epochs |-> epoch_range(fine_tune_calls, n_epochs_finetune)]
    /\ fine_tune_calls' = fine_tune_calls + 1
    /\ index_iteration' = index_iteration + 1
    /\ pc' = IF index_iteration + 1 < n_iterations(n_filters_start, budget)
             THEN "rank" ELSE "save"
    /\ UNCHANGED <<net, call, nCalls, noops, rank_vars, percentage, n_filters_start,
                   is_offline_mode, dataloader_train, files, tests, n_epochs_select,
                   n_epochs_finetune>>

\* torch.save(net, str(path_output_model))
Save ==
    /\ pc = "save"
    /\ files' = (path_output_model(percentage, is_offline_mode) :> net) @@ files
    /\ pc' = "test_speed"
    /\ UNCHANGED <<net, call, nCalls, noops, rank_vars, percentage, index_iteration,
                   fine_tune_calls, n_filters_start, is_offline_mode,
                   dataloader_train, tests, n_epochs_select, n_epochs_finetune,
                   trained>>

\* experiment_helper.test(..., eval_speeds=True, ...)
TestSpeed ==
    /\ pc = "test_speed"
    /\ tests' = Append(tests, <<percentage, eval_speeds(1)>>)
    /\ pc' = "test_images"
    /\ UNCHANGED <<net, call, nCalls, noops, rank_vars, percentage, index_iteration,
                   fine_tune_calls, n_filters_start, is_offline_mode,
                   dataloader_train, files, n_epochs_select, n_epochs_finetune,
                   trained>>

\* experiment_helper.test(..., eval_speeds=False, ...), then the next value
\* of range(percentage_prune_steps, percentage_prune_max + 1, percentage_prune_steps)
TestImages ==
    /\ pc = "test_images"
    /\ tests' = Append(tests, <<percentage, eval_speeds(2)>>)
    /\ IF percentage + percentage_prune_steps < percentage_prune_max + 1
       THEN /\ percentage' = percentage + percentage_prune_steps
            /\ index_iteration' = 0
            /\ pc' = "rank"
       ELSE /\ UNCHANGED <<percentage, index_iteration>>
            /\ pc' = "done"
    /\ UNCHANGED <<net, call, nCalls, noops, rank_vars, fine_tune_calls, n_filters_start,
                   is_offline_mode, dataloader_train, files, n_epochs_select,
                   n_epochs_finetune, trained>>

NextMain ==
    \/ MainRank \/ RankFails \/ PruneTarget \/ PruneFails \/ MainFineTune \/ FineTuneFails
    \/ Save \/ TestSpeed \/ TestImages

SpecMain == InitMain /\ [][NextMain]_vars

\* the steps of main when every external call returns
NextReturns ==
    MainRank \/ PruneTarget \/ MainFineTune \/ Save \/ TestSpeed \/ TestImages

SpecReturns == InitMain /\ [][NextReturns]_vars

---------------------------------------------------------------------------
(* The order of the controller's steps *)

\* the steps of main, told apart by what they change
IsRank == pc = "rank" /\ pc' = "prune"

IsFineTune == fine_tune_calls' = fine_tune_calls + 1

IsMilestoneEval == files' # files \/ tests' # tests

\* inner iterations completed before milestone p began
IterationsBefore(p) ==
    ((p \div percentage_prune_steps) - 1) * n_iterations(n_filters_start, budget)

\* C12: within each inner iteration the steps come in the order RANK,
\* PRUNE_BATCH, FINE_TUNE: every prune call applies the next entry of the
\* plan, in plan order, to the network the previous call produced; fine_tune
\* runs only when every entry has been applied; a ranking is taken only when
\* every earlier iteration has been fine-tuned; and the evaluation of a
\* milestone starts only when all its inner iterations are completed.
StepsInOrder ==
    [][/\ IsCall =>
             /\ pc = "prune"
             /\ index_target < Len(prune_targets)
             /\ call'.layer = prune_targets[index_target + 1][1]
             /\ call'.filter = prune_targets[index_target + 1][2]
             /\ net' = prune_resnet18_conv_layer(net, call'.layer, call'.filter).net
             /\ index_target' = index_target + 1
             /\ prune_targets' = prune_targets
             /\ fine_tune_calls = IterationsBefore(percentage) + index_iteration
       /\ IsFineTune =>
             /\ pc = "prune"
             /\ index_target = Len(prune_targets)
             /\ net' = net
             /\ fine_tune_calls = IterationsBefore(percentage) + index_iteration
       /\ IsRank =>
             /\ index_target = Len(prune_targets)
             /\ index_iteration < n_iterations(n_filters_start, budget)
             /\ fine_tune_calls = IterationsBefore(percentage) + index_iteration
             /\ net' = net
       /\ IsMilestoneEval =>
             /\ index_target = Len(prune_targets)
             /\ index_iteration = n_iterations(n_filters_start, budget)
             /\ fine_tune_calls = IterationsBefore(percentage) + index_iteration
             /\ net' = net]_vars

\* in the second inner iteration of the second milestone, the last entry of
\* a plan of several entries has been applied and fine_tune comes next
StepsWitness ==
    /\ pc = "prune"
    /\ percentage = 2 * percentage_prune_steps
    /\ index_iteration = 1
    /\ Len(prune_targets) > 1
    /\ index_target = Len(prune_targets)
    /\ call.layer = prune_targets[index_target][1]

---------------------------------------------------------------------------
(* MILESTONE_EVAL *)

\* the milestones whose inner loop has completed and that were persisted
Persisted ==
    IF pc \in {"test_speed", "test_images", "done"}
    THEN percentage \div percentage_prune_steps
    ELSE (percentage \div percentage_prune_steps) - 1

\* the test calls made so far
Tested ==
    IF pc = "done" THEN 2 * Persisted
    ELSE IF pc = "test_images" THEN 2 * Persisted - 1
    ELSE IF pc = "test_speed" THEN 2 * Persisted - 2
    ELSE 2 * Persisted

\* C13: for every milestone p in 10, 20, ..., 90, once its inner loop is
\* completed, the network is persisted to the path of milestone p, then the
\* evaluation runs with speed measurement enabled, then with speed
\* measurement disabled, each exactly once, before the next milestone starts.
MilestoneEvalInOrder ==
    percentage > 0 =>
       /\ percentage \in { percentage_prune_steps * m :
                             m \in 1..(percentage_prune_max \div percentage_prune_steps) }
       /\ DOMAIN files = { path_output_model(percentage_prune_steps * m, is_offline_mode) :
                             m \in 1..Persisted }
       /\ Len(tests) = Tested
       /\ \A i \in 1..Len(tests) :
             tests[i] = <<percentage_prune_steps * ((i + 1) \div 2), i % 2 = 1>>
       /\ pc \in {"test_speed", "test_images"} =>
             files[path_output_model(percentage, is_offline_mode)] = net
       /\ pc = "done" => percentage = percentage_prune_max

\* the run has ended: nine checkpoints, eighteen evaluation runs
MilestoneWitness ==
    /\ pc = "done"
    /\ Cardinality(DOMAIN files) = 9
    /\ Len(tests) = 18
    /\ tests[17] = <<percentage_prune_max, TRUE>>
    /\ tests[18] = <<percentage_prune_max, FALSE>>

---------------------------------------------------------------------------
(* An error during PRUNE_BATCH *)

\* the checkpoint paths of the milestones before p
EarlierCheckpoints(p) ==
    { path_output_model(percentage_prune_steps * m, is_offline_mode) :
        m \in 1..((p \div percentage_prune_steps) - 1) }

\* C14: when a prune call signals an error during PRUNE_BATCH of milestone
\* p the run halts: the checkpoints on disk are those of the milestones
\* before p, nothing runs afterwards, and no step of the run ever changes a
\* checkpoint that was written.
ErrorHaltsBeforeCheckpoint ==
    [][/\ pc' = "raised" =>
             /\ pc = "prune"
             /\ index_target < Len(prune_targets)
             /\ DOMAIN files' = EarlierCheckpoints(percentage)
       /\ pc = "raised" => UNCHANGED vars
       /\ \A path \in DOMAIN files :
             path \in DOMAIN files' /\ files'[path] = files[path]]_vars

\* a prune call of the third milestone failed in the middle of the batch;
\* the checkpoints of the first two milestones are on disk
ErrorWitness ==
    /\ pc = "raised"
    /\ percentage = 3 * percentage_prune_steps
    /\ 0 < index_target
    /\ index_target < Len(prune_targets)
    /\ Cardinality(DOMAIN files) = 2
    /\ Len(tests) = 4

---------------------------------------------------------------------------
(* The overall reduction *)

\* C15: at every point of a run of main the filters removed so far are at
\* most percentage_prune_max percent of the filters the network started
\* with: F0 - total_num_filters(net) <= 0.9 * F0.
RemovedWithinCeiling ==
    n_filters_start > 0 =>
       100 * (n_filters_start - total_num_filters(net))
           <= percentage_prune_max * n_filters_start

---------------------------------------------------------------------------
(* One filter pruned from the last conv2 of the second stage *)

\* width of the stem of the ResNet-18 of the source
SourceWidth == 64

\* network n, grown from stem width w, after one filter was taken from the
\* conv2 of the last block of the second stage
SecondStagePruned(n, w) ==
    LET next == Block(n, 2, 0)
    IN  /\ num_features(Block(n, 1, 1).bn2) = Planes(w, 2) - 1
        /\ in_channels(n.side_prep[2]) = Planes(w, 2) - 1
        /\ in_channels(next.conv1) = Planes(w, 2) - 1
        /\ next.downsample # None
        /\ in_channels(next.downsample[1]) = Planes(w, 2) - 1
        /\ out_channels(next.downsample[1]) = Planes(w, 3)

\* C16: pruning one filter of layer 8 of the unpruned network leaves that
\* block's bn2 with one feature less than the stage width (127 of 128), the
\* stage's side_prep and the next stage's first conv1 with as many input
\* channels (127), and the next block's downsample convolution with 127
\* input channels and its original output channels (256).
SecondStageScenario ==
    (nCalls = 1 /\ call.layer = 8 /\ call.outcome = "pruned") =>
       /\ SecondStagePruned(net, BaseWidth)
       /\ \A f \in {0, Planes(SourceWidth, 2) - 1} :
             \A r \in {prune_resnet18_conv_layer(OSVOS_RESNET(SourceWidth), 8, f)} :
                 /\ ~r.raised
                 /\ SecondStagePruned(r.net, SourceWidth)
                 /\ num_features(Block(r.net, 1, 1).bn2) = 127
                 /\ out_channels(Block(r.net, 2, 0).downsample[1]) = 256

\* the first call of a run pruned layer 8 of the unpruned network
SecondStageWitness ==
    /\ nCalls = 1
    /\ call.layer = 8
    /\ call.outcome = "pruned"
    /\ call.channels = Planes(BaseWidth, 2)
    /\ out_channels(Block(net, 1, 1).conv2) = Planes(BaseWidth, 2) - 1

---------------------------------------------------------------------------
(* Parameters carried over by one call *)

\* a call with a valid filter_index that removed a filter
IsValidPrune ==
    /\ IsCall
    /\ call'.outcome = "pruned"
    /\ call'.filter \in 0..(call'.channels - 1)

\* the normalization layers a call on layer_index shrinks: the one paired
\* with the convolution and, for a conv2, that of the block's downsample
\* path when the block had one
ShrunkNorms(n, pre, layer_index) ==
    LET index_stage == (layer_index - 1) \div 4
        kt          == ((layer_index - 1) % 4) \div 2
    IN  <<PairedNorm(n, layer_index)>>
        \o (IF layer_index > 0 /\ (layer_index - 1) % 2 = 1
               /\ Block(pre, index_stage, kt).downsample # None
            THEN <<Block(n, index_stage, kt).downsample[2]>> ELSE <<>>)

\* C17: every output-axis shrink removes, at filter_index, the entry of the
\* scale, of the bias and of the running statistics of the paired
\* normalization layer: the remaining channels keep their values, those
\* after filter_index one position lower.
NormParametersShift ==
    [][IsValidPrune =>
          \A i \in DOMAIN ShrunkNorms(net, net, call'.layer) :
             LET old == ShrunkNorms(net, net, call'.layer)[i]
                 new == ShrunkNorms(net', net, call'.layer)[i]
             IN  /\ SliceRemoved(old.weight, new.weight, call'.filter)
                 /\ SliceRemoved(old.bias, new.bias, call'.filter)
                 /\ SliceRemoved(old.running, new.running, call'.filter)]_vars

\* C18: every input-axis shrink changes only the input dimension of the
\* convolution: its output channels and its output-side parameters, the
\* bias term of side_prep among them, are as before the call.
InputShrinkKeepsOutputSide ==
    [][IsValidPrune =>
          \A i \in DOMAIN ConsumerConvs(net, net, call'.layer) :
             LET old == ConsumerConvs(net, net, call'.layer)[i]
                 new == ConsumerConvs(net', net, call'.layer)[i]
             IN  /\ SliceRemoved(old.in, new.in, call'.filter)
                 /\ new.out = old.out
                 /\ new.bias = old.bias]_vars

\* C19: the plan is grouped by layer and the groups come in ascending layer
\* order, whatever the scores.
PlanLayersAscend ==
    Ranked =>
       \A p, q \in 1..Len(prune_targets) :
          p < q => prune_targets[p][1] <= prune_targets[q][1]

\* the position at which layer l first occurs in the selection
FirstSelected(l) ==
    CHOOSE h \in 1..Len(lowest) :
       lowest[h][1] = l /\ \A g \in 1..(h - 1) : lowest[g][1] # l

\* C19, as the code has it: the entries of one layer are contiguous, and the
\* groups come in the order in which their layers first occur in the result
\* of lowest_ranking_filters (the layer holding the lowest score first).
PlanLayersInSelectionOrder ==
    Ranked =>
       \A p, q \in 1..Len(prune_targets) :
          p < q =>
             \/ prune_targets[p][1] = prune_targets[q][1]
                   /\ \A r \in p..q : prune_targets[r][1] = prune_targets[p][1]
             \/ prune_targets[p][1] # prune_targets[q][1]
                   /\ FirstSelected(prune_targets[p][1]) < FirstSelected(prune_targets[q][1])

\* a plan in which the group of a later layer comes before the group of an
\* earlier one
PlanOrderWitness ==
    /\ Ranked
    /\ \E p, q \in 1..Len(prune_targets) :
          /\ p + 1 < q
          /\ prune_targets[p][1] = prune_targets[p + 1][1]
          /\ prune_targets[p][1] > prune_targets[q][1]

\* C20: a downsample path synthesized for a block that had none is a 1x1
\* convolution without bias, with the block's stride, from the block's conv1
\* input channels to the block's bn2 features (both as after the call),
\* followed by a batch norm of scale 1 and bias 0.
SynthesizedDownsample ==
    [][IsCall =>
          \A s \in Stages : \A kt \in 0..1 :
             (Block(net, s, kt).downsample = None /\ Block(net', s, kt).downsample # None)
                => LET bb == Block(net', s, kt)
                       c  == bb.downsample[1]
                       bn == bb.downsample[2]
                   IN  /\ c.kernel = 1
                       /\ c.bias = FALSE
                       /\ c.stride = bb.stride
                       /\ in_channels(c) = in_channels(bb.conv1)
                       /\ out_channels(c) = num_features(bb.bn2)
                       /\ num_features(bn) = num_features(bb.bn2)
                       /\ \A j \in 1..num_features(bn) :
                             bn.weight[j] = ONE /\ bn.bias[j] = ZERO]_vars

\* the first call pruned the conv2 of the first block of the first stage and
\* gave both blocks of the stage a downsample path
SynthesisWitness ==
    /\ nCalls = 1
    /\ call.layer = 2
    /\ call.outcome = "pruned"
    /\ Block(net, 0, 0).downsample # None
    /\ Block(net, 0, 1).downsample # None
    /\ out_channels(Block(net, 0, 0).downsample[1]) = BaseWidth - 1
    /\ in_channels(Block(net, 0, 0).downsample[1]) = BaseWidth

---------------------------------------------------------------------------
(* What no call touches *)

\* C21: no sequence of prune_resnet18_conv_layer calls changes the output
\* channels of a side_prep convolution (SideWidth of them) or the fuse
\* convolution: its input channel count stays NStages * SideWidth.
SideOutputsAndFuseKept ==
    /\ \A s \in Stages :
          /\ out_channels(net.side_prep[s + 1]) = SideWidth
          /\ net.side_prep[s + 1].out = get_net.side_prep[s + 1].out
    /\ in_channels(net.layer_fuse) = NStages * SideWidth
    /\ net.layer_fuse = get_net.layer_fuse

\* the second call of a run pruned the last conv2 of the first stage: its
\* side_prep has lost an input channel
SideWitness ==
    /\ nCalls = 2
    /\ call.layer = 4
    /\ call.outcome = "pruned"
    /\ in_channels(net.side_prep[1]) = BaseWidth - 1
    /\ out_channels(Block(net, 0, 1).conv2) = in_channels(net.side_prep[1])

---------------------------------------------------------------------------
(* Training passes and the length of a run *)

\* C22: each RANK step makes exactly n_epochs_select passes over the
\* training data and each FINE_TUNE step exactly n_epochs_finetune passes,
\* for every iteration index.
PassesAsConfigured ==
    /\ trained.step = "rank" => Cardinality(trained.epochs) = n_epochs_select
    /\ trained.step = "fine_tune" => Cardinality(trained.epochs) = n_epochs_finetune

\* the milestones of range(percentage_prune_steps, percentage_prune_max + 1,
\* percentage_prune_steps)
Milestones ==
    { percentage_prune_steps * m : m \in 1..(percentage_prune_max \div percentage_prune_steps) }

\* the inner iterations of one milestone
InnerIterations == 1 + (n_filters_start * percentage_prune_steps) \div (budget * 100)

\* an upper bound of the steps of one milestone: per inner iteration one
\* ranking, at most budget prune calls and one fine_tune; then the
\* checkpoint and the two evaluation runs
MilestoneSteps == InnerIterations * (budget + 2) + 3

\* an upper bound of the steps main still has to take
StepsLeft ==
    LET later == (Cardinality(Milestones) - percentage \div percentage_prune_steps)
                   * MilestoneSteps
        inner == (InnerIterations - index_iteration - 1) * (budget + 2) + 3
    IN  IF pc = "rank" THEN (budget + 2) + inner + later
        ELSE IF pc = "prune" THEN (Len(prune_targets) - index_target) + 1 + inner + later
        ELSE IF pc = "save" THEN 3 + later
        ELSE IF pc = "test_speed" THEN 2 + later
        ELSE IF pc = "test_images" THEN 1 + later
        ELSE 0

\* main can take a step: no exception has left it, and the loop over the
\* plan is either at an entry or exhausted
CanStep ==
    /\ pc \in {"rank", "prune", "save", "test_speed", "test_images"}
    /\ pc = "prune" => index_target <= Len(prune_targets)

\* C23: when every external call returns, main terminates: as long as it has
\* not stopped it can take a step, every step lowers the bound StepsLeft,
\* which is never negative; it goes through the milestones 10, 20, ..., 90
\* in ascending order, each once, with 1 + floor(F0 * 10 / (k * 100)) inner
\* iterations in each of them, and stops only after the evaluation of
\* milestone 90, whatever was removed.
MainTerminates ==
    /\ [](pc = "done" \/ CanStep)
    /\ [](StepsLeft >= 0)
    /\ [][StepsLeft' < StepsLeft]_vars
    /\ [](pc = "done" =>
             /\ percentage = percentage_prune_max
             /\ fine_tune_calls = Cardinality(Milestones) * InnerIterations
             /\ Len(tests) = 2 * Cardinality(Milestones))
    /\ [][percentage' # percentage =>
             /\ pc = "test_images"
             /\ percentage' = percentage + percentage_prune_steps
             /\ percentage' \in Milestones
             /\ index_iteration = InnerIterations
             /\ fine_tune_calls
                  = (percentage \div percentage_prune_steps) * InnerIterations]_vars

\* the run has ended although its last plans were empty: every layer had
\* reached the minimum-channel floor before the last milestone
TerminatesWitness ==
    /\ pc = "done"
    /\ percentage = percentage_prune_max
    /\ prune_targets = <<>>
    /\ forward_skip_layer(net) = Layers
    /\ Len(tests) = 2 * Cardinality(Milestones)

\* every plan so far had budget entries and no call returned at the
\* one-channel test
FullPlansNoNoops ==
    /\ nCalls = budget * fine_tune_calls
    /\ \A l \in Layers : noops[l] = 0

\* C24: when the checkpoint of milestone p is persisted, at least p percent
\* of the F0 filters have been removed, provided every plan so far held k
\* entries and none of them was a floor no-op.
MilestoneReached ==
    (pc = "test_speed" /\ FullPlansNoNoops) =>
       100 * (n_filters_start - total_num_filters(net)) >= percentage * n_filters_start

\* the checkpoint of the second milestone has been written after full
\* plans without a no-op
MilestoneReachedWitness ==
    /\ pc = "test_speed"
    /\ percentage = 2 * percentage_prune_steps
    /\ FullPlansNoNoops
    /\ budget < 64
    /\ nCalls > 0

\* C25: a failure raised while a training sample is processed during RANK or
\* FINE_TUNE does not abort the schedule: no such failure takes the
\* controller out of its loops before DONE.
SampleFailureKeepsSchedule ==
    pc # "sample_raised"

---------------------------------------------------------------------------
(* The one-channel floor and the filter count *)

\* C26: at every point of a run of main every prunable convolution (the stem
\* convolution, conv1 and conv2 of every block) has at least one output
\* channel, also when one plan selects every filter of a layer.
EveryLayerKeepsAChannel ==
    \A l \in Layers : out_channels(TargetConv(net, l)) >= 1

\* a plan selected all filters of the stem convolution; its last entry found
\* a single output channel and the layer still has it
WholeLayerWitness ==
    /\ pc = "prune"
    /\ SelectedIn(0) = 0..(MainWidth - 1)
    /\ index_target >= MainWidth
    /\ noops[0] = 1
    /\ out_channels(TargetConv(net, 0)) = 1

\* the calls that returned at the one-channel test, over all layers
RECURSIVE SumNoops(_, _)
SumNoops(count, l) ==
    IF l > LastLayer THEN 0 ELSE count[l] + SumNoops(count, l + 1)

\* C27: total_num_filters decreases by exactly 1 on every call that targets
\* a convolution with more than one output channel and is unchanged by a
\* floor no-op call, for every layer role, whatever happens to the
\* downsample convolutions: after n successful prunes it is F0 - n.
FilterCountTracksPrunes ==
    [][IsCall =>
          /\ call'.channels > 1 =>
                /\ call'.outcome = "pruned"
                /\ total_num_filters(net') = total_num_filters(net) - 1
          /\ call'.channels = 1 =>
                /\ call'.outcome = "noop"
                /\ total_num_filters(net') = total_num_filters(net)
          /\ total_num_filters(net')
                = total_num_filters(get_net) - (nCalls' - SumNoops(noops', 0))]_vars

\* a call on the conv2 of the first block gave both blocks of the first
\* stage a downsample path, and a second call on it was a floor no-op
FilterCountWitness ==
    /\ nCalls = 2
    /\ call.layer = 2
    /\ call.outcome = "noop"
    /\ noops[2] = 1
    /\ Block(net, 0, 0).downsample # None
    /\ Block(net, 0, 1).downsample # None
    /\ total_num_filters(net) = total_num_filters(get_net) - 1

---------------------------------------------------------------------------
(* RANK leaves the network as it is *)

\* the channel counts of every layer of n and the downsample paths it has
Structure(n) ==
    [base |-> <<in_channels(n.layer_base.conv), out_channels(n.layer_base.conv),
                num_features(n.layer_base.bn)>>,
     blocks |-> [s \in Stages |-> [kt \in 0..1 |->
                   LET bb == Block(n, s, kt)
                   IN  <<in_channels(bb.conv1), out_channels(bb.conv1), num_features(bb.bn1),
                         in_channels(bb.conv2), out_channels(bb.conv2), num_features(bb.bn2),
                         IF bb.downsample = None THEN <<>>
                         ELSE <<in_channels(bb.downsample[1]), out_channels(bb.downsample[1]),
                                num_features(bb.downsample[2])>> >>]],
     side |-> [s \in Stages |-> <<in_channels(n.side_prep[s + 1]),
                                  out_channels(n.side_prep[s + 1])>>],
     fuse |-> <<in_channels(n.layer_fuse), out_channels(n.layer_fuse)>>]

\* C28: a RANK step (get_candidates_to_prune) leaves the structure of the
\* network unchanged: every channel count and the presence of every
\* downsample path are as before, so the filters it selected exist in the
\* network the following PRUNE_BATCH starts from.
RankKeepsStructure ==
    [][IsRank =>
          /\ Structure(net') = Structure(net)
          /\ net_ranked' = net'
          /\ \A p \in 1..Len(lowest') :
                lowest'[p][2] < out_channels(TargetConv(net', lowest'[p][1]))]_vars

\* a ranking has been taken on a network that earlier batches have pruned
\* and given downsample paths
RankStructureWitness ==
    /\ pc = "prune"
    /\ index_target = 0
    /\ fine_tune_calls >= 1
    /\ Len(prune_targets) > 0
    /\ net = net_ranked
    /\ Block(net, 0, 0).downsample # None
    /\ total_num_filters(net) < n_filters_start

---------------------------------------------------------------------------
(* The layer groups of a plan are independent *)

\* main: for layer_index, filter_index in prune_targets:
\*           net = prune_resnet18_conv_layer(net, layer_index, filter_index)
\* from entry i of plan on
RECURSIVE ApplyPlan(_, _, _)
ApplyPlan(n, plan, i) ==
    IF i > Len(plan) THEN n
    ELSE ApplyPlan(prune_resnet18_conv_layer(n, plan[i][1], plan[i][2]).net, plan, i + 1)

\* the layers of the plan in every order
GroupOrders ==
    LET layers == PlanLayers(lowest, 1)
        k      == Len(layers)
    IN  { [i \in 1..k |-> layers[o[i]]] :
            o \in { o \in [1..k -> 1..k] : \A a, b \in 1..k : a # b => o[a] # o[b] } }

\* C29: applying the entries of a plan with its layer groups taken in any
\* order, each group in its emitted order, gives the same channel counts in
\* every layer and removes the same original filters as applying the plan as
\* emitted.
GroupOrderIrrelevant ==
    pc = "done" =>
       \A order \in GroupOrders :
          \A n \in {ApplyPlan(net_ranked, EmitPlan(lowest, order, 1), 1)} :
             /\ Structure(n) = Structure(net)
             /\ \A l \in Layers : TargetConv(n, l).out = TargetConv(net, l).out

\* a plan with entries for the last conv2 of a stage and for the first conv1
\* of the next stage, which reads its feature map, has been applied
GroupOrderWitness ==
    /\ pc = "done"
    /\ Cardinality(GroupOrders) = 2
    /\ Cardinality(SelectedIn(12)) >= 2
    /\ Cardinality(SelectedIn(13)) >= 2
    /\ Len(prune_targets) >= 4

\* the layers all of whose filters the plan selected
WholeLayers ==
    { l \in Layers :
        SelectedIn(l) = 0..(out_channels(TargetConv(net_ranked, l)) - 1) }

\* C30: within one PRUNE_BATCH at most one plan entry per layer is a floor
\* no-op, and only for a layer all of whose filters the plan selected: the
\* batch removes as many filters as the plan has entries, minus the number of
\* such layers.
NoopsOnlyForWholeLayers ==
    pc = "done" =>
       /\ \A l \in Layers : noops[l] = IF l \in WholeLayers THEN 1 ELSE 0
       /\ total_num_filters(net_ranked) - total_num_filters(net)
             = Len(prune_targets) - Cardinality(WholeLayers)

\* a batch took every filter of one layer, with one no-op, and one filter of
\* another layer
WholeLayerNoopWitness ==
    /\ pc = "done"
    /\ \E l, m \in Layers :
          /\ l # m
          /\ l \in WholeLayers /\ noops[l] = 1
          /\ SelectedIn(m) # {} /\ m \notin WholeLayers /\ noops[m] = 0
    /\ total_num_filters(net_ranked) - total_num_filters(net) = Len(prune_targets) - 1

====
